---- MODULE Spec2Model ----
(***************************************************************************)
(* approx_collections: FloatPool (src/src/pool.rs) and ApproxHashMap       *)
(* (src/src/hash_map.rs) over keys of type [f64; KeyLen], the comparison   *)
(* and hashing traits (src/src/traits.rs) and the derived impls            *)
(* (src/derive/src/lib.rs).                                                *)
(*                                                                         *)
(* Floats are points of an integer grid.  Precision (src/precision.rs is   *)
(* not part of the sources at hand) is modelled from its specification:    *)
(* absolute mode, bucket(x) = floor(x / W) cast to the unsigned id space,  *)
(* neighbours taken at x - W/2 and x + W/2.                                *)
(***************************************************************************)
EXTENDS Integers, Sequences, FiniteSets, TLC

\* ------------------------------------------------------------- bounds
\* Callers pass floats from the grid points 0..MaxFloat.
MaxFloat == 4
\* Values callers may store.
MaxValue == 2
\* The cached count is capped so that the state space stays finite.
MaxLen == 2
\* Number of distinct results of the modelled hash builder.
HashSpace == 3

\* Longest sequence of pairs handed to from_iter and extend.
MaxPairs == 2

\* The trait methods are called on floats from -MaxScalar..MaxScalar.
MaxScalar == 2
\* Longest Vec<f64> handed to the trait methods.
MaxVec == 2

\* ---------------------------------------------------------- constants
\* Keys are [f64; 2], as in tests::test_float_hashmap.
KeyLen == 2
\* Bucket width of the Precision, in grid units.
W == 2
\* Size of the unsigned bucket-identifier space (u64, width reduced).
IdSpace == 64
\* Sign bit of the modelled f64 bit pattern (width reduced).
SignBit == 32

\* Arity of the tuples handed to the trait methods: (f64, f64).
TupleLen == 2
\* Tolerance of the Precision, in grid units.
Tolerance == 1

Floats == 0..MaxFloat
Keys == [1..KeyLen -> Floats]
Values == 1..MaxValue

\* Option<T>: None is the empty sequence, Some(x) a one-element sequence.
None == <<>>
Some(x) == <<x>>

\* ---------------------------------------------------------- Precision
\* Precision::bucket: floor(x / W), the signed quotient cast to unsigned.
bucket(x) == (x \div W) % IdSpace

\* The triple nearby_buckets returns: lo and hi only where they differ
\* from mid.
Nearby(lo, mid, hi) ==
  [lo |-> IF lo # mid THEN Some(lo) ELSE None,
   mid |-> mid,
   hi |-> IF hi # mid THEN Some(hi) ELSE None]

\* Precision::nearby_buckets: (lo?, mid, hi?).
nearby_buckets(x) ==
  Nearby(bucket(x - (W \div 2)), bucket(x), bucket(x + (W \div 2)))

\* ------------------------------------------------------------- traits
\* f64::to_bits: sign and magnitude.
to_bits(x) == IF x >= 0 THEN x ELSE SignBit + (0 - x)

\* <f64 as ApproxHash>::interned_eq and <[T] as ApproxHash>::interned_eq.
interned_eq(a, b) ==
  /\ Len(a) = Len(b)
  /\ \A i \in 1..Len(a) : to_bits(a[i]) = to_bits(b[i])

\* <[T] as ApproxHash>::interned_hash: the words fed to the hasher, the
\* length first and then the bits of each element in order.
interned_hash(key) == <<Len(key)>> \o [i \in 1..Len(key) |-> to_bits(key[i])]

\* BuildHasher::build_hasher, Hasher::write_u64 per word, Hasher::finish.
RECURSIVE finish(_, _)
finish(h, words) ==
  IF words = <<>> THEN h
  ELSE finish((h * 5 + Head(words)) % HashSpace, Tail(words))

Hash(key) == finish(0, interned_hash(key))

\* Iterator::position and Iterator::find: the first of the matching positions, 0 for None.
First(hits) == IF hits = {} THEN 0 ELSE CHOOSE i \in hits : \A j \in hits : i <= j

\* <Option<T> as ApproxHash>::interned_eq.
option_interned_eq(a, b) ==
  IF a = None /\ b = None THEN TRUE
  ELSE IF a = None \/ b = None THEN FALSE
  ELSE to_bits(a[1]) = to_bits(b[1])

\* <(T0, T1) as ApproxHash>::interned_eq.
tuple_interned_eq(a, b) == \A i \in 1..TupleLen : to_bits(a[i]) = to_bits(b[i])

\* Hasher::write_u64 on a hasher that keeps the words it was fed.
write(state, word) == Append(state, word)

\* Each element's interned_hash(state) in order.
RECURSIVE HashEach(_, _, _)
HashEach(state, xs, i) ==
  IF i > Len(xs) THEN state ELSE HashEach(write(state, to_bits(xs[i])), xs, i + 1)

\* mem::discriminant of an Option: 0 for None, 1 for Some.
discriminant(o) == IF o = None THEN 0 ELSE 1

\* Option's interned_hash feeding the payload and then the discriminant.
option_hash_payload_first(o, state) ==
  IF o # None THEN write(write(state, to_bits(o[1])), discriminant(o))
  ELSE write(state, discriminant(o))

\* <Option<T> as ApproxHash>::interned_hash.
option_interned_hash(o, state) ==
  IF o # None THEN write(write(state, discriminant(o)), to_bits(o[1]))
  ELSE write(state, discriminant(o))

\* <(T0, T1) as ApproxHash>::interned_hash: each component in order.
tuple_interned_hash(t, state) == HashEach(state, t, 1)

\* f64::abs.
Abs(x) == IF x < 0 THEN 0 - x ELSE x

\* Precision::f64_eq: a and b are within the tolerance.
f64_eq(a, b) == Abs(a - b) <= Tolerance

\* Precision::f64_eq_zero: x and 0 are within the tolerance.
f64_eq_zero(x) == Abs(x) <= Tolerance

\* <f64 as ApproxEq>::approx_eq.
approx_eq(a, b) == f64_eq(a, b)

\* Length of std::iter::zip(a, b).
ZipLen(a, b) == IF Len(a) < Len(b) THEN Len(a) ELSE Len(b)

\* <[T] as ApproxEq>::approx_eq without the comparison of the lengths.
zip_approx_eq(a, b) == \A i \in 1..ZipLen(a, b) : approx_eq(a[i], b[i])

\* <[T] as ApproxEq>::approx_eq.
slice_approx_eq(a, b) ==
  Len(a) = Len(b) /\ \A i \in 1..ZipLen(a, b) : approx_eq(a[i], b[i])

\* <Option<T> as ApproxEq>::approx_eq.
option_approx_eq(a, b) ==
  IF a = None /\ b = None THEN TRUE
  ELSE IF a = None \/ b = None THEN FALSE
  ELSE approx_eq(a[1], b[1])

\* <(T0, T1) as ApproxEq>::approx_eq.
tuple_approx_eq(a, b) == \A i \in 1..TupleLen : approx_eq(a[i], b[i])

\* <f64 as ApproxEqZero>::approx_eq_zero.
approx_eq_zero(x) == f64_eq_zero(x)

\* <(T0, T1) as ApproxEqZero>::approx_eq_zero.
tuple_approx_eq_zero(t) == \A i \in 1..TupleLen : approx_eq_zero(t[i])

\* f64::total_cmp and usize::cmp.
total_cmp(a, b) == IF a < b THEN "Less" ELSE IF a > b THEN "Greater" ELSE "Equal"

\* <f64 as ApproxOrd>::approx_cmp.
approx_cmp(a, b) == IF approx_eq(a, b) THEN "Equal" ELSE total_cmp(a, b)

\* The find() of the slice's and the tuple's approx_cmp: the first
\* position among the first n whose floats do not compare Equal, 0 for none.
FindNonEqual(a, b, n) == First({i \in 1..n : approx_cmp(a[i], b[i]) # "Equal"})

\* The slice's approx_cmp with Equal for unwrap_or_else's comparison of
\* the lengths.
SliceCmpNoLen(a, b, i) ==
  IF i # 0 THEN approx_cmp(a[i], b[i]) ELSE "Equal"

\* <[T] as ApproxOrd>::approx_cmp where find() already gave i: the
\* comparison there, or unwrap_or_else's comparison of the lengths.
SliceCmpAt(a, b, i) ==
  IF i # 0 THEN approx_cmp(a[i], b[i]) ELSE total_cmp(Len(a), Len(b))

\* <[T] as ApproxOrd>::approx_cmp.
slice_approx_cmp(a, b) == SliceCmpAt(a, b, FindNonEqual(a, b, ZipLen(a, b)))

\* <Option<T> as ApproxOrd>::approx_cmp.
option_approx_cmp(a, b) ==
  IF a = None /\ b = None THEN "Equal"
  ELSE IF a = None THEN "Less"
  ELSE IF b = None THEN "Greater"
  ELSE approx_cmp(a[1], b[1])

\* <(T0, T1) as ApproxOrd>::approx_cmp where the first nonequal component
\* is i: `nonequal => return nonequal`, or Ordering::Equal at the end.
TupleCmpAt(a, b, i) == IF i # 0 THEN approx_cmp(a[i], b[i]) ELSE "Equal"

tuple_approx_cmp(a, b) == TupleCmpAt(a, b, FindNonEqual(a, b, TupleLen))

\* f64::is_sign_positive.
is_sign_positive(x) == to_bits(x) < SignBit

\* approx_cmp_zero of f64 by the sign alone.
cmp_zero_by_sign(x) == IF is_sign_positive(x) THEN "Greater" ELSE "Less"

\* <f64 as ApproxCmpZero>::approx_cmp_zero.
approx_cmp_zero(x) ==
  IF approx_eq_zero(x) THEN "Equal"
  ELSE IF is_sign_positive(x) THEN "Greater"
  ELSE "Less"

\* <(T0, T1) as ApproxCmpZero>::approx_cmp_zero where the first component
\* that is not Equal to zero is i.
TupleCmpZeroAt(t, i) == IF i # 0 THEN approx_cmp_zero(t[i]) ELSE "Equal"

tuple_approx_cmp_zero(t) ==
  TupleCmpZeroAt(t, First({i \in 1..TupleLen : approx_cmp_zero(t[i]) # "Equal"}))

\* ---------------------------------------------------------- FloatPool
\* HashMap::insert on the bucket table: sets or overwrites floats[k].
Put(fl, k, x) == [i \in (DOMAIN fl) \cup {k} |-> IF i = k THEN x ELSE fl[i]]

\* `if let Some(k) = lo { self.floats.insert(k, x); }`, and the same for hi.
PutNeighbor(fl, k, x) == IF k = None THEN fl ELSE Put(fl, k[1], x)

\* FloatPool::new: the zero seed.
PoolNew == [i \in {0} |-> 0]

\* FloatPool::get.
PoolGet(fl, x) == IF bucket(x) \in DOMAIN fl THEN Some(fl[bucket(x)]) ELSE None

\* insert that hands x back and registers nothing.
PoolInsertForgetful(fl, x, nb) == [f |-> x, floats |-> fl]

\* FloatPool::insert, after nearby_buckets: the canonical float returned
\* and the pool afterwards.
PoolInsertNearby(fl, x, nb) ==
  IF nb.mid \in DOMAIN fl
  THEN [f |-> fl[nb.mid], floats |-> fl]
  ELSE [f |-> x,
        floats |-> PutNeighbor(PutNeighbor(Put(fl, nb.mid, x), nb.lo, x), nb.hi, x)]

\* FloatPool::insert.
PoolInsert(fl, x) == PoolInsertNearby(fl, x, nearby_buckets(x))

\* FloatPool::intern_in_place on a [f64; N]: insert() on each float in
\* visitation order.  Result: the interned key and the pool afterwards.
RECURSIVE InternFrom(_, _, _)
InternStep(r, key, i) == InternFrom(r.floats, [key EXCEPT ![i] = r.f], i + 1)

InternFrom(fl, key, i) ==
  IF i > Len(key) THEN [key |-> key, floats |-> fl]
  ELSE InternStep(PoolInsert(fl, key[i]), key, i)

\* intern that looks every float up against the pool as it was on entry.
PoolInternEach(fl, key) ==
  [key |-> [i \in 1..Len(key) |-> PoolInsert(fl, key[i]).f],
   floats |-> InternFrom(fl, key, 1).floats]

\* FloatPool::intern.
PoolIntern(fl, key) == InternFrom(fl, key, 1)

\* FloatPool::try_intern: the closure visits each float in order; until
\* `failed` is set it replaces the float by the saved one, or sets `failed`
\* where FloatPool::get finds none.
RECURSIVE TryFrom(_, _, _, _)
TryVisit(fl, value, i, failed, saved) ==
  IF failed \/ saved = None
  THEN TryFrom(fl, value, i + 1, TRUE)
  ELSE TryFrom(fl, [value EXCEPT ![i] = saved[1]], i + 1, FALSE)

TryFrom(fl, value, i, failed) ==
  IF i > Len(value) THEN [value |-> value, failed |-> failed]
  ELSE TryVisit(fl, value, i, failed, PoolGet(fl, value[i]))

\* try_intern ending in Some(value) whatever `failed` says.
AlwaysSome(r) == Some(r.value)

\* (!failed).then_some(value).
ThenSome(r) == IF r.failed THEN None ELSE Some(r.value)

\* FloatPool::try_intern.
PoolTryIntern(fl, key) == ThenSome(TryFrom(fl, key, 1, FALSE))

\* FloatIterInner::next: `find` passes the entries whose value lies in the
\* bucket it is stored under.
FloatIterNext(fl) == {k \in DOMAIN fl : bucket(fl[k]) = k}

\* FloatPool::iter and into_iter: the floats yielded, each with the number
\* of times it is yielded (the order is undefined).
pool_iter(fl) ==
  [v \in {fl[k] : k \in FloatIterNext(fl)} |->
     Cardinality({k \in FloatIterNext(fl) : fl[k] = v})]

\* FloatPool::bucket_count.
bucket_count(fl) == Cardinality(DOMAIN fl)

\* ------------------------------------------------------------- derive
\* A type with derived impls: a struct or an enum, each variant (a struct
\* has one) the sequence of its fields in declaration order, TRUE for a
\* float field and FALSE for one marked approx_internable_non_float.
Struct(fields) == [kind |-> "struct", variants |-> <<fields>>]
Enum(variants) == [kind |-> "enum", variants |-> variants]

\* enum Foo { Bar1 { data: f64 }, Bar2(f64), Bar3, Bar4 }
Foo == Enum(<< <<TRUE>>, <<TRUE>>, <<>>, <<>> >>)
\* enum Foo4 { Bar1, Bar2(non-float u64, f64), Bar3 { x: f64, non-float y: u64 } }
Foo4 == Enum(<< <<>>, <<FALSE, TRUE>>, <<TRUE, FALSE>> >>)
\* struct Coordinate { x: f64, y: f64 }
Coordinate == Struct(<<TRUE, TRUE>>)
\* struct Foo2 { bar1: f64, non-float bar2: u64 }
Foo2 == Struct(<<TRUE, FALSE>>)
\* struct Empty {}
Empty == Struct(<<>>)

Decls == {Foo, Foo4, Coordinate, Foo2, Empty}

\* The values of type decl whose fields are taken from vals.
ValuesOf(decl, vals) ==
  UNION {{[decl |-> decl, variant |-> v, fields |-> f] :
            f \in [1..Len(decl.variants[v]) -> vals]} :
         v \in 1..Len(decl.variants)}

\* `true #(&& ApproxEq::approx_eq(&self.f, &other.f, prec))*` over the
\* fields of a struct or of a matched variant.
FieldsEq(fa, fb) == \A i \in 1..Len(fa) : approx_eq(fa[i], fb[i])

\* The match of the derived approx_eq of an enum: one arm per variant in
\* order, taken when both values are of that variant, then `_ => false`.
RECURSIVE MatchArms(_, _, _)
MatchArms(a, b, i) ==
  IF i > Len(a.decl.variants) THEN FALSE
  ELSE IF a.variant = i /\ b.variant = i THEN FieldsEq(a.fields, b.fields)
  ELSE MatchArms(a, b, i + 1)

\* A derived approx_eq that compares the payloads whatever the variants.
payload_approx_eq(a, b) ==
  Len(a.fields) = Len(b.fields) /\ FieldsEq(a.fields, b.fields)

\* The approx_eq that derive(ApproxEq) generates.
derived_approx_eq(a, b) ==
  IF a.decl.kind = "struct" THEN FieldsEq(a.fields, b.fields)
  ELSE MatchArms(a, b, 1)

\* A filter that keeps every field.
KeepsAll(markers, i) == TRUE

\* `.filter(|f| !parse_float_attr(f))`: whether field i is kept.
Keeps(markers, i) == markers[i]

\* The intern_floats that derive(ApproxInternable) generates, run with the
\* closure of FloatPool::intern_in_place: one visit per kept field in
\* declaration order.  Result: the fields and the pool afterwards.
RECURSIVE VisitFields(_, _, _, _)
VisitField(r, markers, fields, i) ==
  VisitFields(r.floats, markers, [fields EXCEPT ![i] = r.f], i + 1)

VisitFields(fl, markers, fields, i) ==
  IF i > Len(fields) THEN [fields |-> fields, floats |-> fl]
  ELSE IF Keeps(markers, i)
    THEN VisitField(PoolInsert(fl, fields[i]), markers, fields, i)
  ELSE VisitFields(fl, markers, fields, i + 1)

\* FloatPool::intern on a value of a derived type: for an enum `match self`
\* takes the arm of the active variant.
derived_intern(fl, v) == VisitFields(fl, v.decl.variants[v.variant], v.fields, 1)

\* ------------------------------------------------------ LinearApproxMap
\* index_of with `any` for `all` in the comparison of the keys' floats.
index_of_any(list, key) ==
  First({i \in 1..Len(list) :
           \E j \in 1..Len(key) : to_bits(list[i][1][j]) = to_bits(key[j])})

\* LinearApproxMap::index_of: position of the first pair whose key is
\* interned_eq to `key` (1-based), 0 for None.
index_of(list, key) == First({i \in 1..Len(list) : interned_eq(list[i][1], key)})

\* LinearApproxMap::remove as SmallVec::truncate: the pairs from `index`
\* on are all dropped.
LinearTruncate(list, index) == SubSeq(list, 1, index - 1)

\* LinearApproxMap::remove: SmallVec::remove, later pairs shift down.
LinearRemove(list, index) ==
  SubSeq(list, 1, index - 1) \o SubSeq(list, index + 1, Len(list))

\* LinearApproxMap::push.
LinearPush(list, key, value) == Append(list, <<key, value>>)

\* ------------------------------------------------------- ApproxHashMap
VARIABLES
  floats,  \* FloatPool::floats of the map's pool: bucket id -> canonical float
  map,     \* ApproxHashMap::map: hash -> list of <<key, value>>
  len,     \* ApproxHashMap::len, the cached count
  watch,   \* history: the insert() being followed, None or
           \*   Some([key: as passed, ikey: as stored, val: its value])
  call,    \* the trait method called last with its arguments and what it
           \*   returned: [op, a, b, ret], NoCall before any call
  twin     \* a second ApproxHashMap with the same Precision whose hash
           \*   builder hashes every key to 0: [floats, map, len]

vars == <<floats, map, len, watch, call, twin>>

NoCall == [op |-> "none"]

\* HashMap::default / HashMap::clear: no slot.
EmptyMap == [h \in {} |-> <<>>]

\* HashMap::remove on the outer table.
DropSlot(m, h) == [i \in (DOMAIN m) \ {h} |-> m[i]]

\* HashMap::insert on the outer table.
PutSlot(m, h, list) == [i \in (DOMAIN m) \cup {h} |-> IF i = h THEN list ELSE m[i]]

\* The interned key with its hash: hash_builder.build_hasher(),
\* key.interned_hash(&mut h), h.finish().
Hashed(r) == [key |-> r.key, hash |-> Hash(r.key), floats |-> r.floats]

\* ApproxHashMap::intern_and_hash: interned key, its hash, pool afterwards.
intern_and_hash(fl, key) == Hashed(PoolIntern(fl, key))

\* ApproxHashMap::try_intern_and_hash: None, or Some of [key, hash].
HashedOption(fl, t) ==
  IF t = None THEN None
  ELSE Some([key |-> t[1], hash |-> Hash(t[1]), floats |-> fl])

try_intern_and_hash(fl, key) == HashedOption(fl, PoolTryIntern(fl, key))

\* Entry: Occupied with the index of the matching pair, or Vacant.
EntryAt(index) == [occupied |-> index # 0, index |-> index]

\* entry_with_interned_key taking any pair of an existing slot for the
\* entry, without comparing keys.
entry_without_index_of(m, key, hash) ==
  IF hash \in DOMAIN m /\ m[hash] # <<>> THEN EntryAt(1) ELSE EntryAt(0)

\* ApproxHashMap::entry_with_interned_key.
entry_with_interned_key(m, key, hash) ==
  IF hash \in DOMAIN m THEN EntryAt(index_of(m[hash], key)) ELSE EntryAt(0)

\* VacantEntry::insert_entry: the outer table afterwards.
VacantInsertEntry(m, key, hash, value) ==
  IF hash \in DOMAIN m
  THEN [m EXCEPT ![hash] = LinearPush(m[hash], key, value)]
  ELSE PutSlot(m, hash, <<<<key, value>>>>)

\* OccupiedEntry::remove_entry: the outer table afterwards.
OccupiedRemoveEntry(m, hash, index) ==
  IF Len(m[hash]) = 1
  THEN DropSlot(m, hash)
  ELSE [m EXCEPT ![hash] = LinearRemove(m[hash], index)]

\* ApproxHashMap::is_empty.
is_empty(m) == DOMAIN m = {}

\* LinearApproxMap::key_value behind index_of(..)?.
PairAt(list, index) == IF index = 0 THEN None ELSE Some(list[index])

\* ApproxHashMap::get_key_value after try_intern_and_hash.
GetInterned(m, t) ==
  IF t = None THEN None
  ELSE IF t[1].hash \notin DOMAIN m THEN None
  ELSE PairAt(m[t[1].hash], index_of(m[t[1].hash], t[1].key))

\* ApproxHashMap::get_key_value: None, or Some(<<key, value>>).
get_key_value(m, fl, key) ==
  IF is_empty(m) THEN None ELSE GetInterned(m, try_intern_and_hash(fl, key))

\* Some(kv?.1).
SecondOf(kv) == IF kv = None THEN None ELSE Some(kv[1][2])

\* ApproxHashMap::get.
get(m, fl, key) == SecondOf(get_key_value(m, fl, key))

\* ApproxHashMap::contains_key.
contains_key(m, fl, key) == get(m, fl, key) # None

\* ApproxHashMap::iter: the stored pairs, each with its place in the table.
Pairs(m) ==
  UNION {{<<h, i, m[h][i][1], m[h][i][2]>> : i \in 1..Len(m[h])} : h \in DOMAIN m}

\* Number of items iter() yields.
Count(m) == Cardinality(Pairs(m))

\* An iterator item of the key type K, and one of the value type V.
KeyItem(k) == [K |-> k]
ValueItem(v) == [V |-> v]

\* self.map.values().flatten(): the pairs of every outer-table list.  The
\* order of HashMap::values is unspecified; the slots are taken by rising
\* hash here.
MinOf(hs) == CHOOSE h \in hs : \A g \in hs : h <= g

RECURSIVE Flatten(_, _)
Flatten(m, hs) ==
  IF hs = {} THEN <<>> ELSE m[MinOf(hs)] \o Flatten(m, hs \ {MinOf(hs)})

\* ApproxHashMap::iter: `.map(|(k, v)| (k, v))`.
iter(m) == Flatten(m, DOMAIN m)

\* ApproxHashMap::keys: `.map(|(_k, v)| v)`, items of type &V.
keys(m) == [i \in 1..Len(iter(m)) |-> ValueItem(iter(m)[i][2])]

\* ApproxHashMap::into_keys: `.map(|(k, _v)| k)`, items of type K.
into_keys(m) == [i \in 1..Len(iter(m)) |-> KeyItem(iter(m)[i][1])]

\* ApproxHashMap::values: `.map(|(_k, v)| v)`, items of type &V.
values(m) == [i \in 1..Len(iter(m)) |-> ValueItem(iter(m)[i][2])]

\* The Entry handle with what it holds: the index of an OccupiedEntry, the
\* key a VacantEntry owns, the outer-table slot, and the pool afterwards.
EntryWith(e, ih) ==
  [occupied |-> e.occupied, index |-> e.index, key |-> ih.key, hash |-> ih.hash,
   floats |-> ih.floats]

EntryOf(m, ih) == EntryWith(entry_with_interned_key(m, ih.key, ih.hash), ih)

\* ApproxHashMap::entry.
entry(fl, m, key) == EntryOf(m, intern_and_hash(fl, key))

\* Entry::key: OccupiedEntry::key reads the stored key, a Vacant entry
\* gives the key it holds.
EntryKey(m, e) == IF e.occupied THEN m[e.hash][e.index][1] ELSE e.key

\* OccupiedEntry::get.
OccupiedGet(m, e) == m[e.hash][e.index][2]

\* -------------------------------------------------------------- calls
\* Each call as a function of the state it is made in: the state it leaves
\* and what it returns.
Result(fl, m, n, ret) == [floats |-> fl, map |-> m, len |-> n, ret |-> ret]

\* VacantEntry::insert interning the key it holds once more before storing.
VacantInsertReinterning(fl, m, n, e, value) ==
  Result(PoolIntern(fl, e.key).floats,
         VacantInsertEntry(m, PoolIntern(fl, e.key).key, e.hash, value), n + 1, value)

\* VacantEntry::insert / insert_entry on the Vacant handle e, fl being the
\* pool as entry() left it.
VacantInsert(fl, m, n, e, value) ==
  Result(fl, VacantInsertEntry(m, e.key, e.hash, value), n + 1, value)

\* insert whose Vacant branch stores the pair without counting it.
InsertAtUncounted(m, n, ih, e, value) ==
  IF e.occupied
  THEN Result(ih.floats, [m EXCEPT ![ih.hash][e.index][2] = value], n,
              Some(m[ih.hash][e.index][2]))
  ELSE Result(ih.floats, VacantInsertEntry(m, ih.key, ih.hash, value), n, None)

\* Entry::Occupied => Some(e.insert(value)); Entry::Vacant => e.insert(value).
InsertAt(m, n, ih, e, value) ==
  IF e.occupied
  THEN Result(ih.floats, [m EXCEPT ![ih.hash][e.index][2] = value], n,
              Some(m[ih.hash][e.index][2]))
  ELSE Result(ih.floats, VacantInsertEntry(m, ih.key, ih.hash, value), n + 1, None)

\* insert taking the entry for Vacant without looking the key up.
InsertInternedUnsought(m, n, ih, value) == InsertAt(m, n, ih, EntryAt(0), value)

\* ApproxHashMap::entry: the interned key with its Entry.
InsertInterned(m, n, ih, value) ==
  InsertAt(m, n, ih, entry_with_interned_key(m, ih.key, ih.hash), value)

\* ApproxHashMap::insert.
insert(fl, m, n, key, value) == InsertInterned(m, n, intern_and_hash(fl, key), value)

\* ApproxHashMap::remove_entry after intern_and_hash: map.get_mut(&hash)?,
\* index_of(&key)?, Some(linear_map.remove(index)).
RemoveAt(m, n, ih, index) ==
  IF index = 0
  THEN Result(ih.floats, m, n, None)
  ELSE Result(ih.floats, [m EXCEPT ![ih.hash] = LinearRemove(m[ih.hash], index)], n,
              Some(m[ih.hash][index]))

RemoveInterned(m, n, ih) ==
  RemoveAt(m, n, ih, IF ih.hash \in DOMAIN m THEN index_of(m[ih.hash], ih.key) ELSE 0)

\* ApproxHashMap::remove_entry: returns None or Some(<<key, value>>).
remove_entry(fl, m, n, key) == RemoveInterned(m, n, intern_and_hash(fl, key))

\* Some(self.remove_entry(key)?.1).
ValueOf(r) == Result(r.floats, r.map, r.len, SecondOf(r.ret))

\* ApproxHashMap::remove.
remove(fl, m, n, key) == ValueOf(remove_entry(fl, m, n, key))

\* OccupiedEntry::remove on an Occupied entry; a Vacant entry is dropped.
EntryRemoveAt(m, n, ih, e) ==
  IF e.occupied
  THEN Result(ih.floats, OccupiedRemoveEntry(m, ih.hash, e.index), n - 1,
              Some(m[ih.hash][e.index][2]))
  ELSE Result(ih.floats, m, n, None)

EntryRemoveInterned(m, n, ih) ==
  EntryRemoveAt(m, n, ih, entry_with_interned_key(m, ih.key, ih.hash))

\* ApproxHashMap::entry, then OccupiedEntry::remove when Occupied.
entry_remove(fl, m, n, key) == EntryRemoveInterned(m, n, intern_and_hash(fl, key))

\* Entry::or_insert writing the default over the value of an Occupied entry.
OrInsertOverwriting(m, n, ih, e, value) ==
  IF e.occupied
  THEN Result(ih.floats, [m EXCEPT ![ih.hash][e.index][2] = value], n, value)
  ELSE Result(ih.floats, VacantInsertEntry(m, ih.key, ih.hash, value), n + 1, value)

\* Entry::or_insert: returns the value in place.
OrInsertAt(m, n, ih, e, value) ==
  IF e.occupied
  THEN Result(ih.floats, m, n, m[ih.hash][e.index][2])
  ELSE Result(ih.floats, VacantInsertEntry(m, ih.key, ih.hash, value), n + 1, value)

OrInsertInterned(m, n, ih, value) ==
  OrInsertAt(m, n, ih, entry_with_interned_key(m, ih.key, ih.hash), value)

\* ApproxHashMap::entry, then Entry::or_insert.
entry_or_insert(fl, m, n, key, value) ==
  OrInsertInterned(m, n, intern_and_hash(fl, key), value)

\* V::default().
DefaultValue == 1

\* A closure handed to or_insert_with_key: the default it makes from the
\* key it is shown, w picking the closure.
KeyDefault(key, w) == IF key[1] = key[2] THEN w ELSE (w % MaxValue) + 1

\* Entry::or_insert_with, or_insert_with_key and or_default: `made` is what
\* the default function returns when it is called.  Returns the value in
\* place and whether the function was called.
OrInsertWithAt(m, n, ih, e, made) ==
  IF e.occupied
  THEN Result(ih.floats, m, n, [value |-> m[ih.hash][e.index][2], called |-> FALSE])
  ELSE Result(ih.floats, VacantInsertEntry(m, ih.key, ih.hash, made), n + 1,
              [value |-> made, called |-> TRUE])

OrInsertWithInterned(m, n, ih, made) ==
  OrInsertWithAt(m, n, ih, entry_with_interned_key(m, ih.key, ih.hash), made)

\* ApproxHashMap::entry, then Entry::or_insert_with(|| w).
entry_or_insert_with(fl, m, n, key, w) ==
  OrInsertWithInterned(m, n, intern_and_hash(fl, key), w)

OrInsertWithKeyInterned(m, n, ih, w) ==
  OrInsertWithInterned(m, n, ih, KeyDefault(ih.key, w))

\* ApproxHashMap::entry, then Entry::or_insert_with_key.
entry_or_insert_with_key(fl, m, n, key, w) ==
  OrInsertWithKeyInterned(m, n, intern_and_hash(fl, key), w)

\* ApproxHashMap::entry, then Entry::or_default.
entry_or_default(fl, m, n, key) ==
  OrInsertWithInterned(m, n, intern_and_hash(fl, key), DefaultValue)

\* Entry::and_modify with a closure that sets the value to w: returns the
\* variant of the entry handed on and whether the closure was called.
AndModifyAt(m, n, ih, e, w) ==
  IF e.occupied
  THEN Result(ih.floats, [m EXCEPT ![ih.hash][e.index][2] = w], n,
              [occupied |-> TRUE, called |-> TRUE])
  ELSE Result(ih.floats, m, n, [occupied |-> FALSE, called |-> FALSE])

AndModifyInterned(m, n, ih, w) ==
  AndModifyAt(m, n, ih, entry_with_interned_key(m, ih.key, ih.hash), w)

\* ApproxHashMap::entry, then Entry::and_modify.
entry_and_modify(fl, m, n, key, w) == AndModifyInterned(m, n, intern_and_hash(fl, key), w)

\* ApproxHashMap::clear.
clear(fl, m, n) == Result(fl, EmptyMap, n, None)

\* What the &self lookups return for one key.
LookupReturns(m, fl, key) ==
  [get |-> get(m, fl, key),
   get_key_value |-> get_key_value(m, fl, key),
   contains_key |-> contains_key(m, fl, key),
   try_intern |-> PoolTryIntern(fl, key)]

\* A lookup through the mutating intern path, as get_mut does it.
lookup_interning(fl, m, n, key) ==
  Result(PoolIntern(fl, key).floats, m, n,
         LookupReturns(m, PoolIntern(fl, key).floats, key))

\* ApproxHashMap::get, get_key_value, contains_key and try_intern: they
\* take &self and work on a copy of the key.
lookup(fl, m, n, key) == Result(fl, m, n, LookupReturns(m, fl, key))

\* ApproxHashMap::intern.
InternResult(r, m, n) == Result(r.floats, m, n, r.key)

intern(fl, m, n, key) == InternResult(PoolIntern(fl, key), m, n)

\* The body of extend's loop with Entry::or_insert in place of insert.
ExtendOrInsert(r, key, value) == entry_or_insert(r.floats, r.map, r.len, key, value)

\* The body of the loop of Extend::extend: self.insert(key, value).
ExtendInsert(r, key, value) == insert(r.floats, r.map, r.len, key, value)

\* Extend::extend: `for (key, value) in iter { self.insert(key, value); }`.
RECURSIVE ExtendFrom(_, _, _)
ExtendFrom(r, pairs, i) ==
  IF i > Len(pairs) THEN Result(r.floats, r.map, r.len, None)
  ELSE ExtendFrom(ExtendInsert(r, pairs[i][1], pairs[i][2]), pairs, i + 1)

extend(fl, m, n, pairs) == ExtendFrom(Result(fl, m, n, None), pairs, 1)

\* ApproxHashMap::from_iter: with_hasher, then extend.
from_iter(pairs) == extend(PoolNew, EmptyMap, 0, pairs)

\* The `len` field of an iterator made with the cached count n, after k
\* calls of next(): self.len = self.len.saturating_sub(1) per call.
IterLen(n, k) == IF n > k THEN n - k ELSE 0

\* ------------------------------------------------------------ actions
\* History bookkeeping for `watch` (not program state): following an
\* insert ends when a call removes or replaces the pair it stored.
WatchDrop(w, ikey) == IF w # None /\ interned_eq(w[1].ikey, ikey) THEN None ELSE w

Watched(key, ikey, value) == Some([key |-> key, ikey |-> ikey, val |-> value])

Apply(r) ==
  /\ floats' = r.floats
  /\ map' = r.map
  /\ len' = r.len
  /\ call' = call
  /\ twin' = twin

WatchAfterRemoval(w, r, ikey) == IF r.ret = None THEN w ELSE WatchDrop(w, ikey)

\* ApproxHashMap::with_hasher.
Init ==
  /\ floats = PoolNew
  /\ map = EmptyMap
  /\ len = 0
  /\ watch = None
  /\ call = NoCall
  /\ twin = [floats |-> PoolNew, map |-> EmptyMap, len |-> 0]

Insert(key, value) ==
  /\ len < MaxLen
  /\ Apply(insert(floats, map, len, key, value))
  /\ watch' = WatchDrop(watch, PoolIntern(floats, key).key)

Remove(key) ==
  /\ Apply(remove(floats, map, len, key))
  /\ watch' = WatchAfterRemoval(watch, remove(floats, map, len, key),
                                PoolIntern(floats, key).key)

EntryRemove(key) ==
  /\ Apply(entry_remove(floats, map, len, key))
  /\ watch' = WatchAfterRemoval(watch, entry_remove(floats, map, len, key),
                                PoolIntern(floats, key).key)

EntryOrInsert(key, value) ==
  /\ len < MaxLen
  /\ Apply(entry_or_insert(floats, map, len, key, value))
  /\ watch' = watch

EntryOrInsertWith(key, w) ==
  /\ len < MaxLen
  /\ Apply(entry_or_insert_with(floats, map, len, key, w))
  /\ watch' = watch

EntryOrInsertWithKey(key, w) ==
  /\ len < MaxLen
  /\ Apply(entry_or_insert_with_key(floats, map, len, key, w))
  /\ watch' = watch

EntryOrDefault(key) ==
  /\ len < MaxLen
  /\ Apply(entry_or_default(floats, map, len, key))
  /\ watch' = watch

EntryAndModify(key, w) ==
  /\ Apply(entry_and_modify(floats, map, len, key, w))
  /\ watch' = IF entry_and_modify(floats, map, len, key, w).ret.called
              THEN WatchDrop(watch, PoolIntern(floats, key).key)
              ELSE watch

Clear ==
  /\ Apply(clear(floats, map, len))
  /\ watch' = None

Intern(key) ==
  /\ Apply(intern(floats, map, len, key))
  /\ watch' = watch

Lookup(key) ==
  /\ Apply(lookup(floats, map, len, key))
  /\ watch' = watch

Next ==
  \/ \E key \in Keys, value \in Values : Insert(key, value)
  \/ \E key \in Keys : Remove(key)
  \/ \E key \in Keys : EntryRemove(key)
  \/ \E key \in Keys, value \in Values : EntryOrInsert(key, value)
  \/ \E key \in Keys, w \in Values : EntryOrInsertWith(key, w)
  \/ \E key \in Keys, w \in Values : EntryOrInsertWithKey(key, w)
  \/ \E key \in Keys : EntryOrDefault(key)
  \/ \E key \in Keys, w \in Values : EntryAndModify(key, w)
  \/ Clear
  \/ \E key \in Keys : Intern(key)
  \/ \E key \in Keys : Lookup(key)

Spec == Init /\ [][Next]_vars

\* The same calls, with the history variable following an insert: the
\* followed insert is the latest one made through InsertWatched.
InsertWatched(key, value) ==
  /\ len < MaxLen
  /\ Apply(insert(floats, map, len, key, value))
  /\ watch' = Watched(key, PoolIntern(floats, key).key, value)

NextWatch ==
  \/ Next
  \/ \E key \in Keys, value \in Values : InsertWatched(key, value)

SpecWatch == Init /\ [][NextWatch]_vars

\* The sequences of pairs handed to from_iter and extend.
PairSeqs == UNION {[1..k -> Keys \X Values] : k \in 0..MaxPairs}

\* from_iter builds its own map: it is a way to make the first state.
FromIter(pairs) ==
  /\ floats = PoolNew /\ map = EmptyMap /\ len = 0
  /\ Apply(from_iter(pairs))
  /\ watch' = None

Extend(pairs) ==
  /\ len + Len(pairs) <= MaxLen
  /\ Apply(extend(floats, map, len, pairs))
  /\ watch' = None

\* The calls of Next together with from_iter and extend.
NextExtend ==
  \/ Next
  \/ \E pairs \in PairSeqs : FromIter(pairs)
  \/ \E pairs \in PairSeqs : Extend(pairs)

SpecExtend == Init /\ [][NextExtend]_vars

\* intern_and_hash with a hash builder whose hasher finishes with 0
\* whatever is written to it.
ConstHashed(ih) == [ih EXCEPT !.hash = 0]

\* insert, remove and entry().remove of a map built with that hasher.
const_insert(fl, m, n, key, value) ==
  InsertInterned(m, n, ConstHashed(intern_and_hash(fl, key)), value)

const_remove(fl, m, n, key) ==
  ValueOf(RemoveInterned(m, n, ConstHashed(intern_and_hash(fl, key))))

const_entry_remove(fl, m, n, key) ==
  EntryRemoveInterned(m, n, ConstHashed(intern_and_hash(fl, key)))

\* get_key_value of a map built with that hasher.
const_get_key_value(m, fl, key) ==
  IF is_empty(m) \/ try_intern_and_hash(fl, key) = None THEN None
  ELSE GetInterned(m, Some(ConstHashed(try_intern_and_hash(fl, key)[1])))

\* One call made on both maps: r is what it does to the map, t what it
\* does to the twin.
TwinApply(r, t) ==
  /\ floats' = r.floats
  /\ map' = r.map
  /\ len' = r.len
  /\ twin' = [floats |-> t.floats, map |-> t.map, len |-> t.len]

TwinInsert(key, value) ==
  /\ len < MaxLen
  /\ TwinApply(insert(floats, map, len, key, value),
               const_insert(twin.floats, twin.map, twin.len, key, value))
  /\ UNCHANGED <<watch, call>>

TwinRemove(key) ==
  /\ TwinApply(remove(floats, map, len, key),
               const_remove(twin.floats, twin.map, twin.len, key))
  /\ UNCHANGED <<watch, call>>

TwinEntryRemove(key) ==
  /\ TwinApply(entry_remove(floats, map, len, key),
               const_entry_remove(twin.floats, twin.map, twin.len, key))
  /\ UNCHANGED <<watch, call>>

TwinClear ==
  /\ TwinApply(clear(floats, map, len), clear(twin.floats, twin.map, twin.len))
  /\ UNCHANGED <<watch, call>>

\* The same sequence of calls made on the map and on its twin.
NextTwin ==
  \/ \E key \in Keys, value \in Values : TwinInsert(key, value)
  \/ \E key \in Keys : TwinRemove(key)
  \/ \E key \in Keys : TwinEntryRemove(key)
  \/ TwinClear

SpecTwin == Init /\ [][NextTwin]_vars

\* The arguments of the trait methods: f64, Vec<f64>, (f64, f64) and
\* Option<f64>.
Scalars == (0 - MaxScalar)..MaxScalar
Vecs == UNION {[1..k -> Scalars] : k \in 0..MaxVec}
Tuples == [1..TupleLen -> Scalars]
Options == {None} \cup {Some(x) : x \in Scalars}

\* A call of a trait method on a and b that returned ret; the map is not
\* involved.
Called(op, a, b, ret) ==
  /\ call = NoCall
  /\ call' = [op |-> op, a |-> a, b |-> b, ret |-> ret]
  /\ UNCHANGED <<floats, map, len, watch, twin>>

Return ==
  /\ call # NoCall
  /\ call' = NoCall
  /\ UNCHANGED <<floats, map, len, watch, twin>>

SliceApproxEq(a, b) == Called("slice_approx_eq", a, b, slice_approx_eq(a, b))
OptionApproxEq(a, b) == Called("option_approx_eq", a, b, option_approx_eq(a, b))
TupleApproxEq(a, b) == Called("tuple_approx_eq", a, b, tuple_approx_eq(a, b))
ApproxCmp(a, b) == Called("approx_cmp", a, b, approx_cmp(a, b))
SliceApproxCmp(a, b) == Called("slice_approx_cmp", a, b, slice_approx_cmp(a, b))
OptionApproxCmp(a, b) == Called("option_approx_cmp", a, b, option_approx_cmp(a, b))
TupleApproxCmp(a, b) == Called("tuple_approx_cmp", a, b, tuple_approx_cmp(a, b))
ApproxCmpZero(x) == Called("approx_cmp_zero", x, x, approx_cmp_zero(x))
TupleApproxCmpZero(t) == Called("tuple_approx_cmp_zero", t, t, tuple_approx_cmp_zero(t))
SliceInternedHash(a) == Called("interned_hash", a, a, interned_hash(a))
OptionInternedHash(a) == Called("option_interned_hash", a, a, option_interned_hash(a, <<>>))
TupleInternedHash(a) == Called("tuple_interned_hash", a, a, tuple_interned_hash(a, <<>>))

\* One call at a time: the next call starts after the last returned.
NextTraits ==
  \/ /\ call = NoCall
     /\ \/ \E a \in Vecs, b \in Vecs : SliceApproxEq(a, b)
        \/ \E a \in Options, b \in Options : OptionApproxEq(a, b)
        \/ \E a \in Tuples, b \in Tuples : TupleApproxEq(a, b)
        \/ \E a \in Scalars, b \in Scalars : ApproxCmp(a, b)
        \/ \E a \in Vecs, b \in Vecs : SliceApproxCmp(a, b)
        \/ \E a \in Options, b \in Options : OptionApproxCmp(a, b)
        \/ \E a \in Tuples, b \in Tuples : TupleApproxCmp(a, b)
        \/ \E x \in Scalars : ApproxCmpZero(x)
        \/ \E t \in Tuples : TupleApproxCmpZero(t)
        \/ \E a \in Vecs : SliceInternedHash(a)
        \/ \E a \in Options : OptionInternedHash(a)
        \/ \E a \in Tuples : TupleInternedHash(a)
  \/ Return

SpecTraits == Init /\ [][NextTraits]_vars

\* Calls of the derived impls.
DerivedApproxEq(a, b) == Called("derived_approx_eq", a, b, derived_approx_eq(a, b))

\* FloatPool::intern of a derived value on the map's pool; the call keeps
\* the pool it found in b.
DerivedIntern(v) ==
  /\ call = NoCall
  /\ call' = [op |-> "derived_intern", a |-> v, b |-> floats,
              ret |-> derived_intern(floats, v).fields]
  /\ floats' = derived_intern(floats, v).floats
  /\ UNCHANGED <<map, len, watch, twin>>

NextDerive ==
  \/ /\ call = NoCall
     /\ \/ \E decl \in Decls :
             \E a \in ValuesOf(decl, Scalars), b \in ValuesOf(decl, Scalars) :
               DerivedApproxEq(a, b)
        \/ \E decl \in Decls : \E v \in ValuesOf(decl, Floats) : DerivedIntern(v)
  \/ Return

SpecDerive == Init /\ [][NextDerive]_vars

\* ============================================================== claims
\* The keys stored in the map.
StoredKeys(m) == {p[3] : p \in Pairs(m)}

\* C1: in every reachable state len() equals the number of pairs held
\* across all outer-table lists.
C1_LenIsCount == len = Count(map)

\* C2: an occupied bucket stays occupied and keeps its canonical value
\* through every later call.
C2_OccupiedStays ==
  [][\A b \in DOMAIN floats : b \in DOMAIN floats' /\ floats'[b] = floats[b]]_vars

\* C3: in every reachable pool state the zero bucket maps to 0.0, and
\* intern(0.0) and try_intern(0.0) return exactly 0.0.
C3_ZeroSeed ==
  /\ bucket(0) \in DOMAIN floats
  /\ floats[bucket(0)] = 0
  /\ PoolInsert(floats, 0).f = 0
  /\ PoolGet(floats, 0) = Some(0)

\* C4: after insert(k, v), get(k) returns Some(v) in every later state,
\* until the stored pair is replaced or removed or the map is cleared.
C4_GetAfterInsert ==
  watch # None => get(map, floats, watch[1].key) = Some(watch[1].val)

\* What intern returns for the float a previous intern returned.
InternAgain(r) == PoolInsert(r.floats, r.f).f

\* C5: in every reachable pool state, for every float x, interning what
\* intern(x) returned returns it again.
C5_InternIdempotent ==
  \A x \in Floats : InternAgain(PoolInsert(floats, x)) = PoolInsert(floats, x).f

\* C6: in every reachable state no outer-table slot holds an empty list.
C6_NoEmptySlot == \A h \in DOMAIN map : map[h] # <<>>

\* C7: every successful remove decrements len() by exactly one and every
\* insert of a new key increments it by exactly one.
C7_CountAccounting ==
  [][/\ \A key \in Keys :
          (Apply(remove(floats, map, len, key))
             /\ remove(floats, map, len, key).ret # None) => len' = len - 1
     /\ \A key \in Keys, value \in Values :
          (Apply(insert(floats, map, len, key, value))
             /\ insert(floats, map, len, key, value).ret = None) => len' = len + 1
    ]_vars

\* C8: clear() leaves no entries and len() = 0, and the pool as it was.
C8_ClearResets ==
  [][Apply(clear(floats, map, len))
       => (Pairs(map') = {} /\ len' = 0 /\ floats' = floats)]_vars

\* What insert(k, v) must have done to the stored pairs of m and returned,
\* ikey being the interned k and r the result of the call.
InsertPost(m, ikey, value, r) ==
  IF \E sk \in StoredKeys(m) : interned_eq(sk, ikey)
  THEN /\ \E p \in Pairs(m) :
            /\ interned_eq(p[3], ikey)
            /\ r.ret = Some(p[4])
            /\ Pairs(r.map) = (Pairs(m) \ {p}) \cup {<<p[1], p[2], p[3], value>>}
       /\ Count(r.map) = Count(m)
  ELSE /\ r.ret = None
       /\ Count(r.map) = Count(m) + 1
       /\ \E p \in Pairs(r.map) :
            /\ Pairs(r.map) = Pairs(m) \cup {p}
            /\ p[3] = ikey /\ p[4] = value
            /\ p[2] = Len(r.map[p[1]])

\* C9: insert(k, v) appends the pair and returns None when no stored key is
\* bit-identical to the interned k (one more entry), replaces the value and
\* returns the old one otherwise (as many entries); in both cases get(k)
\* right afterwards returns Some(v).
C9_Insert ==
  [][\A key \in Keys, value \in Values :
       Apply(insert(floats, map, len, key, value))
         => /\ InsertPost(map, PoolIntern(floats, key).key, value,
                          insert(floats, map, len, key, value))
            /\ get(map', floats', key) = Some(value)]_vars

\* The stored pairs whose key is bit-identical to the interned query t
\* (t is what try_intern returned).
Matches(m, t) ==
  IF t = None THEN {} ELSE {p \in Pairs(m) : interned_eq(p[3], t[1])}

\* C10: get(q) is Some(v) exactly when try_intern(q) succeeds and a stored
\* pair (k, v) has k bit-identical to the interned q, and None otherwise;
\* get_key_value and contains_key agree with get.
C10_Get ==
  \A q \in Keys :
    /\ \A v \in Values :
         get(map, floats, q) = Some(v)
           <=> \E p \in Matches(map, PoolTryIntern(floats, q)) : p[4] = v
    /\ get(map, floats, q) = None <=> Matches(map, PoolTryIntern(floats, q)) = {}
    /\ contains_key(map, floats, q) <=> Matches(map, PoolTryIntern(floats, q)) # {}
    /\ \A p \in Matches(map, PoolTryIntern(floats, q)) :
         get_key_value(map, floats, q) = Some(<<p[3], p[4]>>)
    /\ Matches(map, PoolTryIntern(floats, q)) = {}
         => get_key_value(map, floats, q) = None

\* A state where two pairs share one outer-table list, a lookup hits
\* through a key that is not itself stored, and a lookup of a key whose
\* floats are all known to the pool misses.
C10_Witness ==
  /\ \E h \in DOMAIN map : Len(map[h]) = 2
  /\ \E q \in Keys : get(map, floats, q) # None /\ q \notin StoredKeys(map)
  /\ \E q \in Keys : PoolTryIntern(floats, q) # None /\ get(map, floats, q) = None

\* The stored (key, value) pairs, without their place in the table.
KeyValues(m) == {<<p[3], p[4]>> : p \in Pairs(m)}

\* What remove_entry(k) must have done, r being its result on the map m
\* with pool fl and cached count n, key the key as passed and ikey its
\* interned form.
RemovePost(m, fl, n, key, ikey, r) ==
  IF \E p \in Pairs(m) : interned_eq(p[3], ikey)
  THEN /\ \E p \in Pairs(m) :
            /\ interned_eq(p[3], ikey)
            /\ r.ret = Some(<<p[3], p[4]>>)
            /\ KeyValues(r.map) = KeyValues(m) \ {<<p[3], p[4]>>}
            /\ Count(r.map) = Count(m) - 1
            /\ \A q \in Keys :
                 (get(m, fl, q) # None /\ get_key_value(m, fl, q)[1][1] # p[3])
                   => get_key_value(r.map, r.floats, q) = get_key_value(m, fl, q)
       /\ get(r.map, r.floats, key) = None
       /\ ~contains_key(r.map, r.floats, key)
  ELSE /\ r.ret = None
       /\ Pairs(r.map) = Pairs(m)
       /\ r.len = n

\* C11: remove(k) / remove_entry(k) removes and returns exactly the pair
\* whose key is bit-identical to the interned k, every other pair stays
\* retrievable with its value and get(k) / contains_key(k) then report
\* absent; without such a pair None is returned and the stored pairs and
\* len() stay as they were.  Stated in every reachable state for the call
\* made there.
C11_Remove ==
  \A key \in Keys :
    /\ RemovePost(map, floats, len, key, PoolIntern(floats, key).key,
                  remove_entry(floats, map, len, key))
    /\ remove(floats, map, len, key).ret
         = SecondOf(remove_entry(floats, map, len, key).ret)
    /\ remove(floats, map, len, key).map = remove_entry(floats, map, len, key).map

\* A state a remove has left: the list it emptied is still in its slot
\* (the cached count is above the number of pairs) and another pair is
\* still stored and retrievable by its own key.
C11_Witness ==
  /\ \E h \in DOMAIN map : map[h] = <<>>
  /\ \E p \in Pairs(map) : get(map, floats, p[3]) = Some(p[4])

\* C12: get, get_key_value, contains_key and try_intern leave the pool's
\* bucket mapping, the stored pairs and len() exactly as they were, whether
\* the key is found, absent, or holds a float of a never-registered bucket.
C12_LookupsReadOnly ==
  \A key \in Keys :
    /\ lookup(floats, map, len, key).floats = floats
    /\ lookup(floats, map, len, key).map = map
    /\ lookup(floats, map, len, key).len = len

\* A state where one lookup finds its key, another fails on a float whose
\* bucket was never registered, and the pool holds more than its seed.
C12_Witness ==
  /\ \E q \in Keys : get(map, floats, q) # None
  /\ \E q \in Keys : PoolTryIntern(floats, q) = None
  /\ bucket_count(floats) > 1

\* C13: try_intern returns None exactly when one of the floats has its
\* bucket unoccupied, and otherwise the value with every float replaced by
\* the canonical value of its own bucket.
C13_TryInternAllOrNothing ==
  \A key \in Keys :
    /\ PoolTryIntern(floats, key) = None
         <=> \E i \in 1..Len(key) : bucket(key[i]) \notin DOMAIN floats
    /\ PoolTryIntern(floats, key) # None
         => /\ Len(PoolTryIntern(floats, key)[1]) = Len(key)
            /\ \A i \in 1..Len(key) :
                 PoolTryIntern(floats, key)[1][i] = floats[bucket(key[i])]

\* A pool grown by interning where one value fails after its first float
\* was already replaced by a different canonical value, and another value
\* succeeds with a float replaced.
C13_Witness ==
  /\ bucket_count(floats) > 1
  /\ \E key \in Keys :
       /\ bucket(key[1]) \in DOMAIN floats
       /\ floats[bucket(key[1])] # key[1]
       /\ bucket(key[2]) \notin DOMAIN floats
  /\ \E key \in Keys :
       /\ PoolTryIntern(floats, key) # None
       /\ PoolTryIntern(floats, key)[1] # key

\* The neighbor buckets of nb that are present (lo and hi where they
\* differ from mid).
NeighborIds(nb) ==
  (IF nb.lo = None THEN {} ELSE {nb.lo[1]}) \cup (IF nb.hi = None THEN {} ELSE {nb.hi[1]})

\* What one intern(x) must have done to the pool fl, nb being
\* nearby_buckets(x) and r the float returned with the pool afterwards.
PoolInsertPost(fl, x, nb, r) ==
  IF nb.mid \in DOMAIN fl
  THEN /\ r.f = fl[nb.mid]
       /\ r.floats = fl
  ELSE /\ r.f = x
       /\ DOMAIN r.floats = DOMAIN fl \cup {nb.mid} \cup NeighborIds(nb)
       /\ r.floats[nb.mid] = x
       /\ \A k \in NeighborIds(nb) \ DOMAIN fl : r.floats[k] = x
       /\ \A k \in DOMAIN fl : r.floats[k] = fl[k]
       /\ bucket_count(r.floats) - bucket_count(fl) \in 1..3

\* C14: one intern(x) on a float returns the canonical value of an
\* occupied bucket(x) and leaves the pool alone; on an unoccupied one it
\* returns x, registers mid with x and lo/hi with x only where they were
\* unoccupied, adding between 1 and 3 entries.
C14_InternStep ==
  \A x \in Floats :
    PoolInsertPost(floats, x, nearby_buckets(x), PoolInsert(floats, x))

\* The interned key ih.key meets a true hash collision in m: its slot holds
\* pairs, none of them under a bit-identical key.
Collides(m, ih) ==
  /\ ih.hash \in DOMAIN m
  /\ m[ih.hash] # <<>>
  /\ \A i \in 1..Len(m[ih.hash]) : ~interned_eq(m[ih.hash][i][1], ih.key)

\* What insert(k, v) must have done on a collision, ih being the interned k
\* with its hash and r the result of the call on map m with pool fl and
\* cached count n.
CollisionPost(m, fl, n, key, ih, value, r) ==
  /\ r.map[ih.hash] = Append(m[ih.hash], <<ih.key, value>>)
  /\ \A h \in DOMAIN m \ {ih.hash} : h \in DOMAIN r.map /\ r.map[h] = m[h]
  /\ r.len = n + 1
  /\ get(r.map, r.floats, key) = Some(value)
  /\ get(r.map, r.floats, ih.key) = Some(value)
  /\ \A i \in 1..Len(m[ih.hash]) :
       get(m, fl, m[ih.hash][i][1]) = Some(m[ih.hash][i][2])
         => get(r.map, r.floats, m[ih.hash][i][1]) = Some(m[ih.hash][i][2])

\* C16: a key whose interned form is bit-identical to no stored key but
\* whose hash is that of a stored key is appended to the same list; the
\* earlier pairs are neither replaced nor hidden, get returns each with its
\* own value, and len() counts both.
C16_Collision ==
  [][\A key \in Keys, value \in Values :
       (Apply(insert(floats, map, len, key, value))
          /\ Collides(map, intern_and_hash(floats, key)))
         => CollisionPost(map, floats, len, key, intern_and_hash(floats, key), value,
                          insert(floats, map, len, key, value))]_vars

\* The items a sequence yields, each with the number of times it comes.
Multiset(seq) ==
  [x \in {seq[i] : i \in 1..Len(seq)} |-> Cardinality({i \in 1..Len(seq) : seq[i] = x})]

\* The keys of the pairs iter() yields, as items of the key type.
IterKeys(m) == [i \in 1..Len(iter(m)) |-> KeyItem(iter(m)[i][1])]

\* C17: keys() yields each stored key exactly once and nothing else: the
\* same multiset of keys as iter() and into_keys() yield.
C17_Keys ==
  /\ Multiset(keys(map)) = Multiset(IterKeys(map))
  /\ Multiset(keys(map)) = Multiset(into_keys(map))

\* What entry(k) must be on map m, ikey being the interned k and e the
\* Entry returned.
EntryPost(m, ikey, e) ==
  /\ e.occupied <=> \E p \in Pairs(m) : interned_eq(p[3], ikey)
  /\ e.occupied
       => /\ interned_eq(EntryKey(m, e), ikey)
          /\ \E p \in Pairs(m) : p[3] = EntryKey(m, e) /\ p[4] = OccupiedGet(m, e)
  /\ ~e.occupied => EntryKey(m, e) = ikey

\* C18: entry(k) is Occupied exactly when a stored key is bit-identical to
\* the interned k, and then key() and get() give that stored pair; it is
\* Vacant otherwise, also when the slot of the hash holds only other keys,
\* and key() of a Vacant entry is the interned k.
C18_Entry ==
  \A key \in Keys : EntryPost(map, PoolIntern(floats, key).key, entry(floats, map, key))

\* A state where entry() meets all three cases: a stored key, a slot
\* holding only another key, and a hash without slot.
C18_Witness ==
  /\ \E key \in Keys : entry(floats, map, key).occupied
  /\ \E key \in Keys :
       /\ ~entry(floats, map, key).occupied
       /\ Collides(map, intern_and_hash(floats, key))
  /\ \E key \in Keys : intern_and_hash(floats, key).hash \notin DOMAIN map

\* What an insert-if-absent through the entry API must have done on map m
\* with cached count n: ikey is the interned key, made the default, value
\* the value handed back, called whether the default was made use of (the
\* default function ran), r the state the call left.
OrInsertPost(m, n, ikey, made, value, called, r) ==
  IF \E p \in Pairs(m) : interned_eq(p[3], ikey)
  THEN /\ r.map = m
       /\ r.len = n
       /\ \E p \in Pairs(m) : interned_eq(p[3], ikey) /\ value = p[4]
       /\ ~called
  ELSE /\ KeyValues(r.map) = KeyValues(m) \cup {<<ikey, made>>}
       /\ Count(r.map) = Count(m) + 1
       /\ r.len = n + 1
       /\ value = made
       /\ called

\* What and_modify must have done with a closure setting the value to w.
AndModifyPost(m, n, ikey, w, r) ==
  IF \E p \in Pairs(m) : interned_eq(p[3], ikey)
  THEN /\ \E p \in Pairs(m) :
            /\ interned_eq(p[3], ikey)
            /\ Pairs(r.map) = (Pairs(m) \ {p}) \cup {<<p[1], p[2], p[3], w>>}
       /\ r.len = n
       /\ r.ret.occupied /\ r.ret.called
  ELSE /\ r.map = m
       /\ r.len = n
       /\ ~r.ret.occupied /\ ~r.ret.called

\* C19: or_insert, or_insert_with, or_insert_with_key and or_default leave
\* the stored value and len() alone on an Occupied entry, hand back the
\* existing value and do not call the default function; on a Vacant entry
\* they add exactly one pair with the default and len() grows by one.
\* and_modify applies its function to an Occupied entry only and never
\* inserts.
C19_InsertIfAbsent ==
  \A key \in Keys, w \in Values :
    /\ OrInsertPost(map, len, PoolIntern(floats, key).key, w,
                    entry_or_insert(floats, map, len, key, w).ret,
                    ~entry(floats, map, key).occupied,
                    entry_or_insert(floats, map, len, key, w))
    /\ OrInsertPost(map, len, PoolIntern(floats, key).key, w,
                    entry_or_insert_with(floats, map, len, key, w).ret.value,
                    entry_or_insert_with(floats, map, len, key, w).ret.called,
                    entry_or_insert_with(floats, map, len, key, w))
    /\ OrInsertPost(map, len, PoolIntern(floats, key).key,
                    KeyDefault(PoolIntern(floats, key).key, w),
                    entry_or_insert_with_key(floats, map, len, key, w).ret.value,
                    entry_or_insert_with_key(floats, map, len, key, w).ret.called,
                    entry_or_insert_with_key(floats, map, len, key, w))
    /\ OrInsertPost(map, len, PoolIntern(floats, key).key, DefaultValue,
                    entry_or_default(floats, map, len, key).ret.value,
                    entry_or_default(floats, map, len, key).ret.called,
                    entry_or_default(floats, map, len, key))
    /\ AndModifyPost(map, len, PoolIntern(floats, key).key, w,
                     entry_and_modify(floats, map, len, key, w))

\* A state where the entry of one key is Occupied with a value other than
\* the default on offer, the entry of another key is Vacant, and the
\* cached count still leaves room for an insertion.
C19_Witness ==
  /\ len < MaxLen
  /\ \E key \in Keys :
       /\ entry(floats, map, key).occupied
       /\ OccupiedGet(map, entry(floats, map, key)) # DefaultValue
  /\ \E key \in Keys : ~entry(floats, map, key).occupied

\* What inserting through the Vacant handle e must have done on map m, r
\* being the state VacantEntry::insert left.
VacantInsertPost(m, e, value, r) ==
  /\ r.floats = e.floats
  /\ KeyValues(r.map) = KeyValues(m) \cup {<<EntryKey(m, e), value>>}
  /\ \E i \in 1..Len(r.map[e.hash]) :
       interned_eq(r.map[e.hash][i][1], EntryKey(m, e)) /\ r.map[e.hash][i][2] = value

\* C20: inserting through a Vacant entry never re-interns: from entry(k)
\* returning Vacant to VacantEntry::insert completing the pool is unchanged,
\* and the key stored is bit-identical to the key the handle held.
C20_VacantInsert ==
  \A key \in Keys, value \in Values :
    ~entry(floats, map, key).occupied
      => /\ VacantInsertPost(map, entry(floats, map, key), value,
                             VacantInsert(entry(floats, map, key).floats, map, len,
                                          entry(floats, map, key), value))
         /\ entry_or_insert(floats, map, len, key, value).floats
              = entry(floats, map, key).floats
         /\ entry_or_insert(floats, map, len, key, value).map
              = VacantInsert(entry(floats, map, key).floats, map, len,
                             entry(floats, map, key), value).map

\* A state holding a pair stored through a Vacant handle whose key
\* interning would now change, with a further Vacant entry on offer.
C20_Witness ==
  /\ \E p \in Pairs(map) : PoolIntern(floats, p[3]).key # p[3]
  /\ \E key \in Keys :
       /\ ~entry(floats, map, key).occupied
       /\ PoolIntern(entry(floats, map, key).floats, entry(floats, map, key).key).key
            # entry(floats, map, key).key

\* The interned forms of the keys of `pairs`, each interned in the pool the
\* earlier ones left.
RECURSIVE InternedFrom(_, _, _)
InternedFrom(fl, pairs, i) ==
  IF i > Len(pairs) THEN <<>>
  ELSE <<PoolIntern(fl, pairs[i][1]).key>>
         \o InternedFrom(PoolIntern(fl, pairs[i][1]).floats, pairs, i + 1)

\* The last pair whose key has the interned form of the i-th.
LastOf(iks, i) ==
  CHOOSE j \in i..Len(iks) :
    /\ interned_eq(iks[j], iks[i])
    /\ \A k \in (j + 1)..Len(iks) : ~interned_eq(iks[k], iks[i])

\* The interned forms in iks that m does not store yet.
NewKeys(m, iks) == {iks[i] : i \in 1..Len(iks)} \ StoredKeys(m)

\* What extend must have done on map m with cached count n: pairs are the
\* pairs handed in, iks the interned forms of their keys, r the result.
ExtendPost(m, n, pairs, iks, r) ==
  /\ \A i \in 1..Len(pairs) :
       /\ Cardinality({p \in Pairs(r.map) : interned_eq(p[3], iks[i])}) = 1
       /\ \A p \in Pairs(r.map) :
            interned_eq(p[3], iks[i]) => p[4] = pairs[LastOf(iks, i)][2]
  /\ \A kv \in KeyValues(m) :
       (\A i \in 1..Len(iks) : ~interned_eq(kv[1], iks[i])) => kv \in KeyValues(r.map)
  /\ Count(r.map) = Count(m) + Cardinality(NewKeys(m, iks))
  /\ r.len = n + Cardinality(NewKeys(m, iks))

\* A result without its return value.
Settled(r) == Result(r.floats, r.map, r.len, None)

\* One more insert call on what earlier calls left.
InsertAfter(r, pair) == Settled(insert(r.floats, r.map, r.len, pair[1], pair[2]))

\* What the successive insert calls leave: the last pair inserted into
\* what the pairs before it left.
SuccessiveInserts(fl, m, n, pairs) ==
  IF Len(pairs) = 0 THEN Result(fl, m, n, None)
  ELSE InsertAfter(extend(fl, m, n, SubSeq(pairs, 1, Len(pairs) - 1)),
                   pairs[Len(pairs)])

\* Whether the map is as with_hasher makes it.
Fresh(fl, m, n) == fl = PoolNew /\ m = EmptyMap /\ n = 0

Reverse(key) == [i \in 1..Len(key) |-> key[Len(key) + 1 - i]]

\* The pool a fresh pool becomes by interning the floats of key in order.
PoolAfter(key) == PoolIntern(PoolNew, key).floats

\* Two different floats whose order of interning decides what a fresh pool
\* makes of the second: they share a bucket that a fresh pool does not
\* hold, or the first lies below the bucket of the second within half a
\* bucket width of it.
Contend(a, b) ==
  /\ a # b
  /\ bucket(b) \notin DOMAIN PoolNew
  /\ \/ bucket(a) = bucket(b)
     \/ bucket(a) + 1 = bucket(b) /\ b - a <= W \div 2 /\ bucket(a) \notin DOMAIN PoolNew

\* C22: the pool is order-dependent: there are two orderings of the same
\* intern calls on fresh pools after which the two pools return different
\* canonical values for the same input: whenever the pool is what a fresh
\* pool becomes by interning two contending floats, a fresh pool that
\* interned them in the opposite order answers differently for the second.
C22_OrderDependent ==
  \A key \in Keys :
    floats = PoolAfter(key) /\ Contend(key[1], key[2])
      => PoolInsert(floats, key[2]).f
           # PoolInsert(PoolAfter(Reverse(key)), key[2]).f

\* The pool that interned the value just below a bucket boundary and then
\* the value on it answers the lower one for the boundary, where a pool
\* that interned them in the opposite order answers the boundary itself.
C22_Witness ==
  \E key \in Keys :
    /\ bucket(key[1]) + 1 = bucket(key[2])
    /\ key[2] = W * bucket(key[2])
    /\ floats = PoolAfter(key)
    /\ PoolInsert(floats, key[2]).f = key[1]
    /\ PoolInsert(PoolAfter(Reverse(key)), key[2]).f = key[2]

\* C23: approx_eq of composites is structural: two sequences are equal iff
\* they have the same length and all corresponding elements are approx_eq;
\* two tuples iff all corresponding components are; an Option with no
\* contents equals only another Option with no contents.
C23_StructuralEq ==
  /\ call.op = "slice_approx_eq"
       => call.ret = (/\ Len(call.a) = Len(call.b)
                      /\ \A i \in DOMAIN call.a : approx_eq(call.a[i], call.b[i]))
  /\ call.op = "tuple_approx_eq"
       => call.ret = (~ \E i \in DOMAIN call.a : ~approx_eq(call.a[i], call.b[i]))
  /\ call.op = "option_approx_eq"
       => /\ call.a = None => (call.ret <=> call.b = None)
          /\ call.b = None => (call.ret <=> call.a = None)
          /\ call.a # None /\ call.b # None
               => (call.ret <=> approx_eq(call.a[1], call.b[1]))

\* approx_eq returned false for a sequence and a longer one whose first
\* elements are approximately equal to it and not the same floats.
C23_Witness ==
  /\ call.op = "slice_approx_eq"
  /\ 0 < Len(call.a) /\ Len(call.a) < Len(call.b)
  /\ \A i \in DOMAIN call.a : approx_eq(call.a[i], call.b[i]) /\ call.a[i] # call.b[i]
  /\ call.ret = FALSE

\* Whether i is the first of the first n positions where a and b do not
\* compare Equal.
Decides(a, b, n, i) ==
  /\ i \in 1..n
  /\ approx_cmp(a[i], b[i]) # "Equal"
  /\ \A j \in 1..(i - 1) : approx_cmp(a[j], b[j]) = "Equal"

\* What a lexicographic comparison of a and b over their first n parts
\* returns, `rest` being its answer when all n compare Equal.
Lexicographic(a, b, n, rest, ret) ==
  /\ \A i \in 1..n : Decides(a, b, n, i) => ret = approx_cmp(a[i], b[i])
  /\ (\A i \in 1..n : approx_cmp(a[i], b[i]) = "Equal") => ret = rest

\* C24: approx_cmp of composites is lexicographic: the first pair of
\* corresponding parts that does not compare Equal decides; when all
\* compared parts are Equal the sequence with fewer elements sorts first;
\* None sorts before Some; and approx_cmp returns Equal exactly when
\* approx_eq holds.
C24_Lexicographic ==
  /\ call.op = "slice_approx_cmp"
       => /\ Lexicographic(call.a, call.b, ZipLen(call.a, call.b),
                           IF Len(call.a) < Len(call.b) THEN "Less"
                           ELSE IF Len(call.a) > Len(call.b) THEN "Greater"
                           ELSE "Equal",
                           call.ret)
          /\ call.ret = "Equal" <=> slice_approx_eq(call.a, call.b)
  /\ call.op = "tuple_approx_cmp"
       => /\ Lexicographic(call.a, call.b, TupleLen, "Equal", call.ret)
          /\ call.ret = "Equal" <=> tuple_approx_eq(call.a, call.b)
  /\ call.op = "option_approx_cmp"
       => /\ call.a = None /\ call.b # None => call.ret = "Less"
          /\ call.a # None /\ call.b = None => call.ret = "Greater"
          /\ call.a = None /\ call.b = None => call.ret = "Equal"
          /\ call.a # None /\ call.b # None
               => call.ret = approx_cmp(call.a[1], call.b[1])
          /\ call.ret = "Equal" <=> option_approx_eq(call.a, call.b)
  /\ call.op = "approx_cmp"
       => (call.ret = "Equal" <=> approx_eq(call.a, call.b))

\* approx_cmp returned Less for a sequence and a longer one whose compared
\* elements are all Equal to it without being the same floats.
C24_Witness ==
  /\ call.op = "slice_approx_cmp"
  /\ 0 < Len(call.a) /\ Len(call.a) < Len(call.b)
  /\ \A i \in DOMAIN call.a :
       approx_cmp(call.a[i], call.b[i]) = "Equal" /\ call.a[i] > call.b[i]
  /\ call.ret = "Less"

\* The ordering with its two sides exchanged.
reverse(ord) == IF ord = "Less" THEN "Greater" ELSE IF ord = "Greater" THEN "Less" ELSE ord

\* a <= b: approx_cmp is not Greater.
Le(ord) == ord # "Greater"

\* C25: approx_cmp is a total order: approx_cmp(a, b) is the reverse of
\* approx_cmp(b, a), and with any c, a <= b and b <= c imply a <= c, and
\* a Equal b and b Equal c imply a Equal c.
C25_TotalOrder ==
  call.op = "approx_cmp"
    => /\ call.ret = reverse(approx_cmp(call.b, call.a))
       /\ \A c \in Scalars :
            /\ Le(call.ret) /\ Le(approx_cmp(call.b, c)) => Le(approx_cmp(call.a, c))
            /\ call.ret = "Equal" /\ approx_cmp(call.b, c) = "Equal"
                 => approx_cmp(call.a, c) = "Equal"

\* The algebraic sign of a float that is not zero.
SignOf(x) == IF x > 0 THEN "Greater" ELSE "Less"

\* C26: approx_cmp_zero is consistent with approx_eq_zero: for a float and
\* for a tuple of floats it is Equal iff approx_eq_zero holds; for a float
\* that is not approximately zero it is Greater when the sign is positive
\* and Less otherwise; for a tuple it is the sign of the first component
\* that is not approximately zero.
C26_CmpZero ==
  /\ call.op = "approx_cmp_zero"
       => /\ call.ret = "Equal" <=> approx_eq_zero(call.a)
          /\ ~approx_eq_zero(call.a) => call.ret = SignOf(call.a)
  /\ call.op = "tuple_approx_cmp_zero"
       => /\ call.ret = "Equal" <=> tuple_approx_eq_zero(call.a)
          /\ \A i \in DOMAIN call.a :
               /\ ~approx_eq_zero(call.a[i])
               /\ \A j \in 1..(i - 1) : approx_eq_zero(call.a[j])
               => call.ret = SignOf(call.a[i])

\* approx_cmp_zero returned Greater for a tuple whose first component is
\* negative within the tolerance of zero and whose second is positive
\* beyond it.
C26_Witness ==
  /\ call.op = "tuple_approx_cmp_zero"
  /\ call.a[1] < 0 /\ approx_eq_zero(call.a[1])
  /\ call.a[2] > 0 /\ ~approx_eq_zero(call.a[2])
  /\ call.ret = "Greater"

\* The bits of the floats of a in order.
BitsOf(a) == [i \in 1..Len(a) |-> to_bits(a[i])]

\* C27: interned_hash is consistent with interned_eq and order-sensitive:
\* whenever interned_eq(a, b) holds the hasher is fed the same words for a
\* and b; a sequence feeds its length and then each element in order, an
\* Option its discriminant before any payload, a tuple each component in
\* order.
C27_InternedHash ==
  /\ call.op = "interned_hash"
       => /\ Head(call.ret) = Len(call.a)
          /\ Tail(call.ret) = BitsOf(call.a)
          /\ \A b \in Vecs : interned_eq(call.a, b) => interned_hash(b) = call.ret
          /\ \A b \in Vecs : interned_hash(b) = call.ret => interned_eq(call.a, b)
  /\ call.op = "option_interned_hash"
       => /\ Head(call.ret) = (IF call.a = None THEN 0 ELSE 1)
          /\ Tail(call.ret) = BitsOf(call.a)
          /\ \A b \in Options :
               option_interned_eq(call.a, b) => option_interned_hash(b, <<>>) = call.ret
  /\ call.op = "tuple_interned_hash"
       => /\ call.ret = BitsOf(call.a)
          /\ \A b \in Tuples :
               tuple_interned_eq(call.a, b) => tuple_interned_hash(b, <<>>) = call.ret

\* interned_hash fed the discriminant of Some and then the bits of a
\* negative float.
C27_Witness ==
  /\ call.op = "option_interned_hash"
  /\ call.a # None /\ call.a[1] < 0
  /\ call.ret = <<1, to_bits(call.a[1])>>

\* C28: derived approx_eq: for a struct the AND of each field's approx_eq
\* (true without fields); for an enum two values are equal iff they are of
\* the same variant and all corresponding payload fields are approx_eq: two
\* values of one unit variant are equal, and across variants the answer is
\* false, not a panic, also when the payloads match.
C28_DerivedEq ==
  call.op = "derived_approx_eq"
    => /\ call.ret \in BOOLEAN
       /\ call.a.variant # call.b.variant => call.ret = FALSE
       /\ call.a.variant = call.b.variant
            => call.ret = (~ \E i \in DOMAIN call.a.fields :
                               ~approx_eq(call.a.fields[i], call.b.fields[i]))
       /\ call.a.variant = call.b.variant /\ call.a.fields = <<>> => call.ret = TRUE

\* The derived approx_eq returned false for two values of different
\* variants of an enum that carry the same payload.
C28_Witness ==
  /\ call.op = "derived_approx_eq"
  /\ call.a.decl.kind = "enum"
  /\ call.a.variant # call.b.variant
  /\ call.a.fields = call.b.fields /\ call.a.fields # <<>>
  /\ call.ret = FALSE

\* The positions of the fields that are not marked approx_internable_non_float,
\* in declaration order.
FloatFields(markers) ==
  SelectSeq([i \in 1..Len(markers) |-> i], LAMBDA i : markers[i])

\* The floats of v at those positions.
FloatsAt(v, idx) == [k \in 1..Len(idx) |-> v.fields[idx[k]]]

\* What interning v did, given the positions idx of its float fields and
\* the result r of interning just those floats in order in the pool before.
InternPost(v, idx, r, ret, after) ==
  /\ after = r.floats
  /\ Len(ret) = Len(v.fields)
  /\ \A k \in 1..Len(idx) : ret[idx[k]] = r.key[k]
  /\ \A i \in 1..Len(ret) : (\A k \in 1..Len(idx) : idx[k] # i) => ret[i] = v.fields[i]

\* C29: the derived intern_floats visits, in declaration order, exactly the
\* fields not marked approx_internable_non_float of the struct or of the
\* enum's active variant; a unit variant or unit struct visits nothing; the
\* pool changes only through the visited floats.
C29_DerivedIntern ==
  call.op = "derived_intern"
    => /\ InternPost(call.a,
                     FloatFields(call.a.decl.variants[call.a.variant]),
                     PoolIntern(call.b,
                                FloatsAt(call.a,
                                         FloatFields(call.a.decl.variants[call.a.variant]))),
                     call.ret, floats)
       /\ call.a.fields = <<>> => floats = call.b

\* Interning an enum value whose active variant has a marked field before
\* its float changed the pool and left the marked field as it was, though
\* the pool holds nothing for the bucket of that field.
C29_Witness ==
  /\ call.op = "derived_intern"
  /\ call.a.decl = Foo4 /\ call.a.variant = 2
  /\ floats # call.b
  /\ call.ret[1] = call.a.fields[1]
  /\ bucket(call.a.fields[1]) \notin DOMAIN floats

\* Whether two removals returned the same value and left the same
\* observable map: stored pairs, len(), is_empty(), outer-table slots.
SameOutcome(r, e) ==
  /\ r.ret = e.ret
  /\ KeyValues(r.map) = KeyValues(e.map)
  /\ r.len = e.len
  /\ is_empty(r.map) = is_empty(e.map)
  /\ DOMAIN r.map = DOMAIN e.map

\* C30: the two removal paths are equivalent: in every reachable state and
\* for every key k, remove(k) and entry(k) followed by OccupiedEntry::remove
\* when Occupied return the same value and leave the same stored pairs,
\* len(), is_empty() and outer-table slots.
C30_RemovalPaths ==
  \A key \in Keys :
    SameOutcome(remove(floats, map, len, key), entry_remove(floats, map, len, key))

\* C31: in every reachable state is_empty() is true exactly when the map
\* holds no pair, which is exactly when len() = 0.
C31_EmptyIffNoPairs ==
  /\ is_empty(map) <=> Count(map) = 0
  /\ Count(map) = 0 <=> len = 0

\* C32: every iterator obtained from the map has an exact size: the len()
\* it reports before each call of next() is the number of items it will
\* still yield.
C32_ExactSize ==
  /\ \A k \in 0..Len(iter(map)) : IterLen(len, k) = Len(iter(map)) - k
  /\ \A k \in 0..Len(values(map)) : IterLen(len, k) = Len(values(map)) - k
  /\ \A k \in 0..Len(into_keys(map)) : IterLen(len, k) = Len(into_keys(map)) - k

\* Whether removing through the Occupied entry e of the key interned and
\* hashed as ih is free of fatal conditions: the index lies within the
\* list, `*self.len -= 1` does not go below zero, and the list handed to
\* unwrap_exactly_one has exactly one element.
RemovalIsSafe(m, n, ih, e) ==
  e.occupied
    => /\ ih.hash \in DOMAIN m
       /\ e.index \in 1..Len(m[ih.hash])
       /\ n >= 1
       /\ DropSlot(m, ih.hash) = OccupiedRemoveEntry(m, ih.hash, e.index)
            => Len(m[ih.hash]) = 1

\* C33: no sequence of map operations reaches a fatal condition: for every
\* key, an Occupied entry's index is within its list, its removal does not
\* take the cached count below zero, and unwrap_exactly_one is only
\* handed a list of exactly one element.
C33_NoFatal ==
  /\ len >= 0
  /\ \A key \in Keys :
       RemovalIsSafe(map, len, intern_and_hash(floats, key),
                     entry_with_interned_key(map, intern_and_hash(floats, key).key,
                                             intern_and_hash(floats, key).hash))

\* A key is stored second in a list of two colliding keys while the cached
\* count is 2: its removal through the entry goes by the index.
C33_Witness ==
  /\ len = 2
  /\ \E key \in Keys :
       /\ entry_with_interned_key(map, intern_and_hash(floats, key).key,
                                  intern_and_hash(floats, key).hash).index = 2
       /\ Len(map[intern_and_hash(floats, key).hash]) = 2

\* C34: try_intern and intern agree on known values: if try_intern(v)
\* returns Some(w) then intern(v) returns a value bit-identical to w and
\* leaves the pool as it is; and right after intern(v) returned w,
\* try_intern(v) returns Some(w).
C34_TryInternAgrees ==
  \A key \in Keys :
    /\ PoolTryIntern(floats, key) # None
         => /\ interned_eq(PoolIntern(floats, key).key, PoolTryIntern(floats, key)[1])
            /\ PoolIntern(floats, key).floats = floats
    /\ PoolTryIntern(PoolIntern(floats, key).floats, key)
         = Some(PoolIntern(floats, key).key)

\* What interning key[1] and then key[2], each by itself on the pool the
\* call before left, gives; `first` is the outcome of the first of the two.
OneAtATime(first, key) ==
  [key |-> <<first.f, PoolInsert(first.floats, key[2]).f>>,
   floats |-> PoolInsert(first.floats, key[2]).floats]

\* key[1] is registered by this very call and key[2] falls in one of the
\* buckets it is registered under.
FallsInEarlier(fl, key) ==
  /\ bucket(key[1]) \notin DOMAIN fl
  /\ bucket(key[2]) \in NeighborIds(nearby_buckets(key[1])) \cup {bucket(key[1])}

Canonical(fl) == {fl[k] : k \in DOMAIN fl}

\* C36: in every reachable pool state iter() yields every canonical value
\* the pool holds, and yields none of them more than once.
C36_IterDistinct ==
  /\ DOMAIN pool_iter(floats) = Canonical(floats)
  /\ \A v \in DOMAIN pool_iter(floats) : pool_iter(floats)[v] = 1

\* What the two maps report and what the next call returns on each.
SameReturns(key, value) ==
  /\ insert(floats, map, len, key, value).ret
       = const_insert(twin.floats, twin.map, twin.len, key, value).ret
  /\ remove(floats, map, len, key).ret
       = const_remove(twin.floats, twin.map, twin.len, key).ret
  /\ entry_remove(floats, map, len, key).ret
       = const_entry_remove(twin.floats, twin.map, twin.len, key).ret
  /\ get_key_value(map, floats, key)
       = const_get_key_value(twin.map, twin.floats, key)
  /\ entry_with_interned_key(map, intern_and_hash(floats, key).key,
                             intern_and_hash(floats, key).hash).occupied
       = entry_with_interned_key(twin.map, intern_and_hash(twin.floats, key).key,
                                 0).occupied

\* C37: two maps with the same Precision, one of them hashing every key
\* to the same hash, that received the same sequence of calls report the
\* same len() and is_empty() and return the same results to the next call.
C37_HasherIndependent ==
  /\ len = twin.len
  /\ is_empty(map) <=> is_empty(twin.map)
  /\ \A key \in Keys, value \in Values : SameReturns(key, value)

\* C38: in every reachable map state every stored key is canonical for
\* the map's current pool: try_intern of it succeeds and returns it bit
\* for bit.
C38_StoredCanonical ==
  \A k \in StoredKeys(map) :
    /\ PoolTryIntern(floats, k) # None
    /\ interned_eq(PoolTryIntern(floats, k)[1], k)

\* No two pairs of the table m have bit-identical keys.
NoDuplicateKeys(m) ==
  \A p \in Pairs(m), q \in Pairs(m) :
    interned_eq(p[3], q[3]) => p[1] = q[1] /\ p[2] = q[2]

\* C39: in every reachable map state no two stored pairs have
\* bit-identical keys, in one outer-table list or in two, and an insert
\* leaves none either, also of a key that is stored or was removed.
C39_NoDuplicateKeys ==
  /\ NoDuplicateKeys(map)
  /\ \A key \in Keys, value \in Values :
       NoDuplicateKeys(insert(floats, map, len, key, value).map)

\* A pair is stored, and the slot of another key was emptied by a removal:
\* either key can be inserted again.
C39_Witness ==
  /\ Count(map) = 1
  /\ \E key \in Keys : intern_and_hash(floats, key).key \in StoredKeys(map)
  /\ \E key \in Keys :
       /\ intern_and_hash(floats, key).hash \in DOMAIN map
       /\ map[intern_and_hash(floats, key).hash] = <<>>

====
